---- MODULE Spec2Model ----
(***************************************************************************)
(* A model of the record-keeping backend of main.py: the documents table,  *)
(* add_document and query_documents, the intent classifier and the HTTP    *)
(* handlers /api/students, /api/record, /api/import, /api/chat and         *)
(* /api/health.                                                            *)
(*                                                                         *)
(* Texts are sequences of one-character strings, a character outside      *)
(* ASCII written by its code point ("U+5F20").  Python / JSON values are   *)
(* tagged records: None, str, int, list, dict.                             *)
(***************************************************************************)
EXTENDS Integers, Sequences, FiniteSets, TLC

VARIABLES
    documents,        \* the rows of table documents, in rowid order
    sqlite_sequence,  \* the AUTOINCREMENT high-water mark of the table
    now,              \* the wall clock, in seconds (CURRENT_TIMESTAMP)
    request,          \* the request (or direct call) handled last
    response,         \* what the handler answered (or the call returned)
    effects           \* history: what the handler did while it ran

vars == <<documents, sqlite_sequence, now, request, response, effects>>

-----------------------------------------------------------------------------
(* Bounds of the model.                                                    *)

MaxDocs == 2          \* rows the table may hold in Spec and SpecQuery
MaxClock == 1         \* seconds the clock may advance
MaxTextLen == 3       \* length of the chat messages SpecChat enumerates
MaxBulkExtra == 1     \* rows beyond one full default page in SpecBulk

-----------------------------------------------------------------------------
(* Python values.                                                          *)

PyNone == [t |-> "null"]
PyStr(s) == [t |-> "str", s |-> s]
PyInt(n) == [t |-> "num", n |-> n]
PyList(a) == [t |-> "arr", a |-> a]
PyDict(k, v) == [t |-> "obj", k |-> k, v |-> v]

IsStr(x) == x.t = "str"
IsDict(x) == x.t = "obj"
IsList(x) == x.t = "arr"

\* Python truthiness of None and of a str (the values `if doc_type:`,
\* `if search_text:` and `x or None` are applied to).
Truthy(x) ==
    CASE x.t = "null" -> FALSE
      [] x.t = "str" -> x.s # <<>>
      [] x.t = "num" -> x.n # 0
      [] x.t = "arr" -> x.a # <<>>
      [] x.t = "obj" -> x.k # <<>>

\* dict: `key in d`, d.get(key, default), and the comprehension
\* {k: v for (k, v) in d.items() if k not in reserved}.  Keys are PyStr or
\* PyNone (csv.DictReader's restkey).
DictIndex(d, key) == CHOOSE i \in 1..Len(d.k) : d.k[i] = key
DictHas(d, key) == \E i \in 1..Len(d.k) : d.k[i] = key
DictGet(d, key, default) ==
    IF DictHas(d, key) THEN d.v[DictIndex(d, key)] ELSE default

DictWithout(d, reserved) ==
    LET idx == SelectSeq([i \in 1..Len(d.k) |-> i], LAMBDA i : d.k[i] \notin reserved)
    IN PyDict([j \in 1..Len(idx) |-> d.k[idx[j]]],
              [j \in 1..Len(idx) |-> d.v[idx[j]]])

-----------------------------------------------------------------------------
(* Text.                                                                   *)

\* One character lower-cased: str.lower() and LIKE's case folding agree on
\* the characters of the model (ASCII letters fold, CJK does not).
LowerOf ==
    [c \in {"A", "B", "C", "D", "E", "F", "G", "H", "I", "J", "K", "L", "M",
            "N", "O", "P", "Q", "R", "S", "T", "U", "V", "W", "X", "Y", "Z"} |->
        CASE c = "A" -> "a" [] c = "B" -> "b" [] c = "C" -> "c" [] c = "D" -> "d"
          [] c = "E" -> "e" [] c = "F" -> "f" [] c = "G" -> "g" [] c = "H" -> "h"
          [] c = "I" -> "i" [] c = "J" -> "j" [] c = "K" -> "k" [] c = "L" -> "l"
          [] c = "M" -> "m" [] c = "N" -> "n" [] c = "O" -> "o" [] c = "P" -> "p"
          [] c = "Q" -> "q" [] c = "R" -> "r" [] c = "S" -> "s" [] c = "T" -> "t"
          [] c = "U" -> "u" [] c = "V" -> "v" [] c = "W" -> "w" [] c = "X" -> "x"
          [] c = "Y" -> "y" [] c = "Z" -> "z"]

LowerChar(c) == IF c \in DOMAIN LowerOf THEN LowerOf[c] ELSE c

Lower(text) == [i \in 1..Len(text) |-> LowerChar(text[i])]

\* Python's `kw in text` for strings.
Contains(text, kw) ==
    \E i \in 1..(Len(text) - Len(kw) + 1) :
        \A j \in 1..Len(kw) : text[i + j - 1] = kw[j]

RECURSIVE Concat(_)
Concat(parts) ==
    IF parts = <<>> THEN <<>> ELSE Head(parts) \o Concat(Tail(parts))

RECURSIVE Join(_, _)
Join(sep, parts) ==
    IF parts = <<>> THEN <<>>
    ELSE IF Len(parts) = 1 THEN parts[1]
    ELSE parts[1] \o sep \o Join(sep, Tail(parts))

Digits == <<"0", "1", "2", "3", "4", "5", "6", "7", "8", "9">>

RECURSIVE IntText(_)
IntText(n) ==
    IF n < 10 THEN <<Digits[n + 1]>>
    ELSE IntText(n \div 10) \o <<Digits[(n % 10) + 1]>>

\* json.dumps's string escaping of the two characters of the model that
\* need it.
EscapeChar(c) ==
    IF c = "\"" THEN <<"\\", "\"">>
    ELSE IF c = "\\" THEN <<"\\", "\\">>
    ELSE <<c>>

Quoted(s) == <<"\"">> \o Concat([i \in 1..Len(s) |-> EscapeChar(s[i])]) \o <<"\"">>

\* json.dumps(x, ensure_ascii=False): default separators ", " and ": ",
\* a None key is written "null".
RECURSIVE json_dumps(_)
json_dumps(x) ==
    CASE x.t = "null" -> <<"n", "u", "l", "l">>
      [] x.t = "str" -> Quoted(x.s)
      [] x.t = "num" -> IntText(x.n)
      [] x.t = "arr" ->
            <<"[">> \o Join(<<",", " ">>,
                            [i \in 1..Len(x.a) |-> json_dumps(x.a[i])]) \o <<"]">>
      [] x.t = "obj" ->
            <<"{">> \o Join(<<",", " ">>,
                            [i \in 1..Len(x.k) |->
                                (IF x.k[i].t = "null"
                                 THEN Quoted(<<"n", "u", "l", "l">>)
                                 ELSE Quoted(x.k[i].s))
                                \o <<":", " ">> \o json_dumps(x.v[i])])
                    \o <<"}">>

\* SQLite's `text LIKE pattern`: % matches any run of characters, _ exactly
\* one, any other character itself up to ASCII case.  LikeFrom matches the
\* text from position i on against the pattern from position j on.
RECURSIVE LikeFrom(_, _, _, _)
LikeFrom(text, i, pattern, j) ==
    IF j > Len(pattern) THEN i > Len(text)
    ELSE IF pattern[j] = "%"
         THEN \/ j = Len(pattern)
              \/ \E k \in i..(Len(text) + 1) : LikeFrom(text, k, pattern, j + 1)
    ELSE IF i > Len(text) THEN FALSE
    ELSE IF pattern[j] = "_" THEN LikeFrom(text, i + 1, pattern, j + 1)
    ELSE /\ LowerChar(pattern[j]) = LowerChar(text[i])
         /\ LikeFrom(text, i + 1, pattern, j + 1)

Like(text, pattern) == LikeFrom(text, 1, pattern, 1)

-----------------------------------------------------------------------------
(* The document store: table documents, add_document, query_documents.     *)

\* The state of the database file: the rows and the AUTOINCREMENT counter.
Database == [documents |-> documents, seq |-> sqlite_sequence]

\* A mutant of NextRowid: the counter is read and not advanced.
NextRowidNotAdvanced(db) == db.seq

\* id INTEGER PRIMARY KEY AUTOINCREMENT: one more than the largest rowid the
\* table ever held, which sqlite_sequence records.
NextRowid(db) == db.seq + 1

\* A mutant of InsertRow: INSERT OR REPLACE keyed on the identifier.
InsertOrReplaceRow(rows, row) ==
    IF \E i \in 1..Len(rows) : rows[i].identifier = row.identifier
    THEN LET i == CHOOSE j \in 1..Len(rows) : rows[j].identifier = row.identifier
         IN [rows EXCEPT ![i] = row]
    ELSE Append(rows, row)

\* INSERT INTO documents(...) VALUES (?,?,?): the row goes after the others.
InsertRow(rows, row) == Append(rows, row)

\* sqlite3 binds None, int and str; a list or a dict parameter raises.
Bindable(x) == x.t \in {"null", "str", "num"}

\* TEXT affinity of the columns doc_type and identifier.
SqlText(x) == IF x.t = "num" THEN PyStr(IntText(x.n)) ELSE x

\* add_document(doc_type, identifier, data_dict) at time clock; fault is a
\* storage fault of execute or commit.  Every exception is caught and gives
\* (False, None); nothing is committed then.
add_document(db, clock, doc_type, identifier, data_dict, fault) ==
    LET json_text == json_dumps(data_dict)
        new_id == NextRowid(db)
        row == [id |-> new_id,
                doc_type |-> SqlText(doc_type),
                identifier |-> SqlText(identifier),
                data |-> json_text,
                created_time |-> clock]
    IN IF ~Bindable(doc_type) \/ ~Bindable(identifier) \/ fault
       THEN [ok |-> FALSE, new_id |-> PyNone, db |-> db]
       ELSE [ok |-> TRUE, new_id |-> new_id,
             db |-> [documents |-> InsertRow(db.documents, row), seq |-> new_id]]

\* The WHERE clause query_documents builds: a falsy doc_type or search_text
\* adds no condition.
RowMatches(row, search_text, doc_type) ==
    /\ Truthy(doc_type) => row.doc_type = SqlText(doc_type)
    /\ Truthy(search_text) => Like(row.data, <<"%">> \o search_text.s \o <<"%">>)

\* The orders ORDER BY created_time DESC allows among rows of one second:
\* SQL leaves it open; "scan" (table order, what SQLite's sorter gives) and
\* "reverse" are the two extremes.
TieOrders == {"scan", "reverse"}

\* ORDER BY created_time DESC: row i of the table comes before row j.
OrderedBefore(rows, i, j, tie) ==
    \/ rows[i].created_time > rows[j].created_time
    \/ /\ rows[i].created_time = rows[j].created_time
       /\ IF tie = "scan" THEN i < j ELSE i > j

\* LIMIT ?: a negative limit is no limit.
LimitCount(n, limit) == IF limit < 0 \/ limit > n THEN n ELSE limit

\* query_documents(search_text, doc_type, limit).  The rows are returned with
\* the stored text in data (the json.loads of lines 108-113 changes no state
\* and cannot raise).
query_documents(db, search_text, doc_type, limit, tie) ==
    LET rows == db.documents
        sel == SelectSeq([i \in 1..Len(rows) |-> i],
                         LAMBDA i : RowMatches(rows[i], search_text, doc_type))
        S == {sel[k] : k \in 1..Len(sel)}
        rank == [i \in S |->
                    1 + Cardinality({j \in S : OrderedBefore(rows, j, i, tie)})]
        n == LimitCount(Len(sel), limit)
    IN [p \in 1..n |-> rows[CHOOSE i \in S : rank[i] = p]]

-----------------------------------------------------------------------------
(* The intent classifier.                                                  *)

QueryKeywords ==
    {<<"U+67E5", "U+8BE2">>, <<"U+67E5", "U+627E">>, <<"U+641C", "U+7D22">>,
        <<"U+6709", "U+54EA", "U+4E9B">>}
StoreKeywords == {<<"U+8BB0", "U+5F55">>, <<"U+6DFB", "U+52A0">>, <<"U+4FDD", "U+5B58">>}

\* A mutant of analyze: the store keywords are looked for first.
analyze_store_first(text) ==
    LET text_lower == Lower(text)
    IN IF \E k \in StoreKeywords : Contains(text_lower, k) THEN "store"
       ELSE "query"

\* AIAgent.analyze(text).
analyze(text) ==
    LET text_lower == Lower(text)
    IN IF \E k \in QueryKeywords : Contains(text_lower, k) THEN "query"
       ELSE IF \E k \in StoreKeywords : Contains(text_lower, k) THEN "store"
       ELSE "query"

Surnames ==
    {"U+5F20", "U+674E", "U+738B", "U+5218", "U+9648", "U+6768", "U+9EC4",
        "U+5468", "U+5434", "U+8D75"}

\* The characters of the model in the range U+4E00..U+9FA5.
CJKChars ==
    Surnames \cup {"U+67E5", "U+8BE2", "U+627E", "U+641C", "U+7D22",
        "U+6709", "U+54EA", "U+4E9B", "U+8BB0", "U+5F55",
                   "U+6DFB", "U+52A0", "U+4FDD", "U+5B58", "U+4E09", "U+5E2E", "U+6211", "U+7684"}

\* AIAgent.extract_name(text): the leftmost match of
\* [surname][U+4E00..U+9FA5]{1,2}, greedy, or None.
extract_name(text) ==
    LET starts == {i \in 1..(Len(text) - 1) :
                      text[i] \in Surnames /\ text[i + 1] \in CJKChars}
    IN IF starts = {} THEN PyNone
       ELSE LET i == CHOOSE m \in starts : \A k \in starts : m <= k
                j == IF i + 2 <= Len(text) /\ text[i + 2] \in CJKChars
                     THEN i + 2 ELSE i + 1
            IN PyStr(SubSeq(text, i, j))

-----------------------------------------------------------------------------
(* String literals of the source.                                          *)

str_doc_type == PyStr(<<"d", "o", "c", "_", "t", "y", "p", "e">>)
str_identifier == PyStr(<<"i", "d", "e", "n", "t", "i", "f", "i", "e", "r">>)
str_data == PyStr(<<"d", "a", "t", "a">>)
str_student == PyStr(<<"s", "t", "u", "d", "e", "n", "t">>)
str_record == PyStr(<<"r", "e", "c", "o", "r", "d">>)
str_student_name == PyStr(<<"s", "t", "u", "d", "e", "n", "t", "_", "n", "a", "m", "e">>)
str_record_type == PyStr(<<"r", "e", "c", "o", "r", "d", "_", "t", "y", "p", "e">>)
str_content == PyStr(<<"c", "o", "n", "t", "e", "n", "t">>)
str_time == PyStr(<<"t", "i", "m", "e">>)
str_message == PyStr(<<"m", "e", "s", "s", "a", "g", "e">>)
str_error == PyStr(<<"e", "r", "r", "o", "r">>)
str_choices == PyStr(<<"c", "h", "o", "i", "c", "e", "s">>)

\* "AI fu wu cuo wu:" and "AI xiang ying jie xi shi bai".
ServiceErrorPrefix == <<"A", "I", " ", "U+670D", "U+52A1", "U+9519", "U+8BEF", "U+FF1A">>
ParseFailedText == <<"A", "I", " ", "U+54CD", "U+5E94", "U+89E3", "U+6790", "U+5931", "U+8D25">>

\* The messages of the handlers: "ji lu yi tian jia", "tian jia shi bai",
\* "JSON bi xu shi shu zu", "qing shang chuan JSON shu zu huo CSV wen jian".
RecordAddedText ==
    <<"U+8BB0", "U+5F55", "U+5DF2", "U+6DFB", "U+52A0">>
AddFailedText == <<"U+6DFB", "U+52A0", "U+5931", "U+8D25">>
NotAnArrayText ==
    <<"J", "S", "O", "N", " ", "U+5FC5", "U+987B", "U+662F", "U+6570",
        "U+7EC4">>
NoInputText ==
    <<"U+8BF7", "U+4E0A", "U+4F20", " ", "J", "S", "O", "N", " ", "U+6570",
        "U+7EC4", "U+6216", " ", "C", "S", "V", " ", "U+6587", "U+4EF6">>

StudentsLimit == 200
ChatLimit == 20
DefaultLimit == 50

\* datetime.datetime.now().isoformat(), to the second.
isoformat(clock) == <<"T">> \o IntText(clock)

-----------------------------------------------------------------------------
(* Requests, responses, and what a handler did.                            *)

\* A request body: its content type, whether it parses as JSON, its value.
JsonBody(v) == [is_json |-> TRUE, parses |-> TRUE, value |-> v]
MalformedJsonBody == [is_json |-> TRUE, parses |-> FALSE, value |-> PyNone]
NoJsonBody == [is_json |-> FALSE, parses |-> FALSE, value |-> PyNone]

NoFile == [present |-> FALSE, decodable |-> TRUE, records |-> <<>>]
\* An uploaded file: whether it decodes as UTF-8, and the records csv.reader
\* splits it into (a record is a sequence of cells, a blank line is <<>>).
CsvFile(decodable, records) ==
    [present |-> TRUE, decodable |-> decodable, records |-> records]

\* A JSON response the handler returned, with its HTTP status.
Json(http, body) == [kind |-> "json", http |-> http, body |-> body]
\* An exception that left the handler.
Raised(exc) == [kind |-> "exception", exc |-> exc]

NotCalled == [t |-> "not_called"]
NoEffects ==
    [attempted |-> 0,          \* calls of add_document
     inserted |-> <<>>,        \* the ids add_document returned
     intent |-> "none",        \* what analyze answered
     db_result |-> <<>>,       \* what the chat put into the prompt
     external |-> NotCalled]   \* what chat_completion returned

Outcome(db, resp, eff) == [db |-> db, response |-> resp, effects |-> eff]

\* request.json / request.get_json(): a body that is not JSON or does not
\* parse raises (UnsupportedMediaType, BadRequest).
get_json(body) ==
    IF ~body.is_json THEN [raised |-> TRUE, exc |-> "UnsupportedMediaType"]
    ELSE IF ~body.parses THEN [raised |-> TRUE, exc |-> "BadRequest"]
    ELSE [raised |-> FALSE, value |-> body.value]

-----------------------------------------------------------------------------
(* GET /api/students, POST /api/record, GET /api/health.                   *)

\* qfault: the SELECT fails (sqlite3.Error); nothing catches it.
api_students(db, clock, tie, qfault) ==
    IF qfault THEN Outcome(db, Raised("sqlite3.Error"), NoEffects)
    ELSE Outcome(db,
                 Json(200, [status |-> "success",
                            students |-> query_documents(db, PyNone, str_student,
                                                         StudentsLimit, tie)]),
                 NoEffects)

api_record(db, clock, body, fault) ==
    LET parsed == get_json(body)
    IN IF parsed.raised THEN Outcome(db, Raised(parsed.exc), NoEffects)
       ELSE IF ~IsDict(parsed.value)
            THEN Outcome(db, Raised("AttributeError"), NoEffects)
       ELSE LET data == parsed.value
                student_name == DictGet(data, str_student_name, PyNone)
                record_type == DictGet(data, str_record_type, str_record)
                content == DictGet(data, str_content, PyNone)
                record == PyDict(<<str_student_name, str_record_type,
                                   str_content, str_time>>,
                                 <<student_name, record_type, content,
                                   PyStr(isoformat(clock))>>)
                r == add_document(db, clock, str_record, student_name, record, fault)
                eff == [NoEffects EXCEPT
                            !.attempted = 1,
                            !.inserted = IF r.ok THEN <<r.new_id>> ELSE <<>>]
            IN IF r.ok
               THEN Outcome(r.db, Json(200, [status |-> "success",
                                             message |-> RecordAddedText]), eff)
               ELSE Outcome(r.db, Json(200, [status |-> "error",
                                             message |-> AddFailedText]), eff)

health(db, clock) ==
    Outcome(db, Json(200, [status |-> "ok", time |-> isoformat(clock)]), NoEffects)

-----------------------------------------------------------------------------
(* POST /api/import.                                                       *)

ImportStart(db) ==
    [raised |-> FALSE, db |-> db, succ |-> 0, fail |-> 0, results |-> <<>>,
     attempted |-> 0, inserted |-> <<>>]

\* One more item done: the tallies and the per-item result list.
Tally(acc, r, entry) ==
    [raised |-> FALSE,
     db |-> r.db,
     succ |-> IF r.ok THEN acc.succ + 1 ELSE acc.succ,
     fail |-> IF r.ok THEN acc.fail ELSE acc.fail + 1,
     results |-> Append(acc.results, entry),
     attempted |-> acc.attempted + 1,
     inserted |-> IF r.ok THEN Append(acc.inserted, r.new_id) ELSE acc.inserted]

\* The body of `for it in items:` of the JSON branch.  it.get on an item
\* that is no dict raises AttributeError.
import_json_item(acc, clock, it, fault) ==
    IF ~IsDict(it) THEN [acc EXCEPT !.raised = TRUE]
    ELSE LET doc_type == DictGet(it, str_doc_type, PyNone)
             identifier == DictGet(it, str_identifier, PyNone)
             data_dict ==
                 IF DictHas(it, str_data) /\ IsDict(DictGet(it, str_data, PyNone))
                 THEN DictGet(it, str_data, PyNone)
                 ELSE DictWithout(it, {str_doc_type, str_identifier})
             r == add_document(acc.db, clock, doc_type, identifier, data_dict, fault)
             entry == IF r.ok
                      THEN [item |-> it, status |-> "ok", id |-> r.new_id]
                      ELSE [item |-> it, status |-> "fail"]
         IN Tally(acc, r, entry)

\* `for it in items:` from item i on; an exception ends it.  faults are the
\* positions whose insert meets a storage fault.
RECURSIVE import_json_items(_, _, _, _, _)
import_json_items(acc, clock, items, i, faults) ==
    IF acc.raised \/ i > Len(items) THEN acc
    ELSE import_json_items(import_json_item(acc, clock, items[i], i \in faults),
                           clock, items, i + 1, faults)

\* One row of csv.DictReader: the cells under the field names, the cells
\* beyond them as a list under the key None, None for the cells missing.
DictRow(fieldnames, record) ==
    LET lf == Len(fieldnames)
        lr == Len(record)
    IN PyDict([i \in 1..(IF lr > lf THEN lf + 1 ELSE lf) |->
                  IF i <= lf THEN PyStr(fieldnames[i]) ELSE PyNone],
              [i \in 1..(IF lr > lf THEN lf + 1 ELSE lf) |->
                  IF i > lf THEN PyList([j \in 1..(lr - lf) |-> PyStr(record[lf + j])])
                  ELSE IF i <= lr THEN PyStr(record[i])
                  ELSE PyNone])

\* csv.DictReader(stream): the first record names the fields, blank records
\* are skipped.
DictReader(records) ==
    IF records = <<>> THEN <<>>
    ELSE LET body == SelectSeq(Tail(records), LAMBDA rec : rec # <<>>)
         IN [i \in 1..Len(body) |-> DictRow(records[1], body[i])]

\* The body of `for row in reader:` of the CSV branch.
import_csv_row(acc, clock, row, fault) ==
    LET dt == DictGet(row, str_doc_type, PyNone)
        ident == DictGet(row, str_identifier, PyNone)
        doc_type == IF Truthy(dt) THEN dt ELSE PyNone
        identifier == IF Truthy(ident) THEN ident ELSE PyNone
        data_dict == DictWithout(row, {str_doc_type, str_identifier})
        r == add_document(acc.db, clock, doc_type, identifier, data_dict, fault)
        entry == IF r.ok
                 THEN [row |-> row, status |-> "ok", id |-> r.new_id]
                 ELSE [row |-> row, status |-> "fail"]
    IN Tally(acc, r, entry)

\* `for row in reader:` from row i on.
RECURSIVE import_csv_rows(_, _, _, _, _)
import_csv_rows(acc, clock, rows, i, faults) ==
    IF acc.raised \/ i > Len(rows) THEN acc
    ELSE import_csv_rows(import_csv_row(acc, clock, rows[i], i \in faults),
                         clock, rows, i + 1, faults)

\* jsonify sorts the keys of every dict it writes: a dict with the key None
\* beside str keys cannot be sorted and raises TypeError.
Sortable(d) == ~(DictHas(d, PyNone) /\ Len(d.k) > 1)

ImportEffects(acc) ==
    [NoEffects EXCEPT !.attempted = acc.attempted, !.inserted = acc.inserted]

ImportSummary(acc) ==
    Json(200, [status |-> "success",
               summary |-> [success |-> acc.succ, fail |-> acc.fail],
               details |-> acc.results])

\* `except Exception as e:` of api_import; str(e) is written as the class of
\* the exception.
ImportError(exc) == Json(500, [status |-> "error", message |-> exc])

api_import(db, clock, body, file, faults) ==
    IF body.is_json
    THEN IF ~body.parses THEN Outcome(db, ImportError("BadRequest"), NoEffects)
         ELSE IF ~IsList(body.value)
              THEN Outcome(db, Json(400, [status |-> "error",
                                          message |-> NotAnArrayText]),
                           NoEffects)
         ELSE LET acc == import_json_items(ImportStart(db), clock, body.value.a,
                                           1, faults)
              IN IF acc.raised
                 THEN Outcome(acc.db, ImportError("AttributeError"), ImportEffects(acc))
                 ELSE Outcome(acc.db, ImportSummary(acc), ImportEffects(acc))
    ELSE IF file.present
    THEN IF ~file.decodable
         THEN Outcome(db, ImportError("UnicodeDecodeError"), NoEffects)
         ELSE LET rows == DictReader(file.records)
                  acc == import_csv_rows(ImportStart(db), clock, rows, 1, faults)
              IN IF \A i \in 1..Len(rows) : Sortable(rows[i])
                 THEN Outcome(acc.db, ImportSummary(acc), ImportEffects(acc))
                 ELSE Outcome(acc.db, ImportError("TypeError"), ImportEffects(acc))
    ELSE Outcome(db, Json(400, [status |-> "error",
                                message |-> NoInputText]),
                 NoEffects)

-----------------------------------------------------------------------------
(* POST /api/chat.                                                         *)

\* x[key] inside `try: ... except:`: the value, or Missing when Python
\* raises (KeyError, IndexError, TypeError).
Missing == [t |-> "missing"]
Subscript(x, key) ==
    IF x.t = "obj" /\ key.t = "str" /\ DictHas(x, key) THEN DictGet(x, key, Missing)
    ELSE IF x.t = "arr" /\ key.t = "num" /\ key.n < Len(x.a) THEN x.a[key.n + 1]
    ELSE IF x.t = "str" /\ key.t = "num" /\ key.n < Len(x.s) THEN PyStr(<<x.s[key.n + 1]>>)
    ELSE Missing

\* `"error" in res`: a key of a dict, an element of a list, a substring of a
\* str; None and a number raise TypeError.
InRaises(res) == res.t \in {"null", "num"}
ErrorIn(res) ==
    CASE res.t = "obj" -> DictHas(res, str_error)
      [] res.t = "arr" -> \E i \in 1..Len(res.a) : res.a[i] = str_error
      [] res.t = "str" -> Contains(res.s, str_error.s)
      [] OTHER -> FALSE

\* AIAgent.reply, from what chat_completion returned: the text, or the
\* TypeError raised outside the try.
reply(res) ==
    IF InRaises(res) THEN [raised |-> TRUE, exc |-> "TypeError"]
    ELSE IF ErrorIn(res)
         THEN IF res.t = "obj" /\ IsStr(DictGet(res, str_error, PyNone))
              THEN [raised |-> FALSE,
                    text |-> PyStr(ServiceErrorPrefix \o DictGet(res, str_error, PyNone).s)]
              ELSE [raised |-> TRUE, exc |-> "TypeError"]
    ELSE LET choices == Subscript(res, str_choices)
             first == IF choices = Missing THEN Missing ELSE Subscript(choices, PyInt(0))
             message == IF first = Missing THEN Missing ELSE Subscript(first, str_message)
             content == IF message = Missing THEN Missing ELSE Subscript(message, str_content)
         IN IF content = Missing
            THEN [raised |-> FALSE, text |-> PyStr(ParseFailedText)]
            ELSE [raised |-> FALSE, text |-> content]

\* res is what DeepSeekAPI.chat_completion returns for this request: the
\* body of the answer, or {"error": str(e)} when the call raised.  fault is
\* a storage fault of the SELECT or the INSERT the handler runs.
chat(db, clock, body, res, fault, tie) ==
    LET parsed == get_json(body)
    IN IF parsed.raised THEN Outcome(db, Raised(parsed.exc), NoEffects)
       ELSE IF ~IsDict(parsed.value)
            THEN Outcome(db, Raised("AttributeError"), NoEffects)
       ELSE LET user_msg == DictGet(parsed.value, str_message, PyStr(<<>>))
            IN IF ~IsStr(user_msg)
               THEN Outcome(db, Raised("AttributeError"), NoEffects)
               ELSE LET intent == analyze(user_msg.s)
                        name == extract_name(user_msg.s)
                        eff0 == [NoEffects EXCEPT !.intent = intent]
                    IN IF intent = "query" /\ fault
                       THEN Outcome(db, Raised("sqlite3.Error"), eff0)
                       ELSE LET record == PyDict(<<str_student_name, str_content, str_time>>,
                                                 <<name, user_msg, PyStr(isoformat(clock))>>)
                                r == IF intent = "query"
                                     THEN [ok |-> FALSE, new_id |-> PyNone, db |-> db]
                                     ELSE add_document(db, clock, str_record, name,
                                                       record, fault)
                                eff1 == IF intent = "query"
                                        THEN [eff0 EXCEPT
                                                !.db_result =
                                                    query_documents(db, name, PyNone,
                                                                    ChatLimit, tie)]
                                        ELSE [eff0 EXCEPT
                                                !.attempted = 1,
                                                !.inserted = IF r.ok THEN <<r.new_id>>
                                                             ELSE <<>>,
                                                !.db_result = record]
                                eff == [eff1 EXCEPT !.external = res]
                                answer == reply(res)
                            IN IF answer.raised
                               THEN Outcome(r.db, Raised(answer.exc), eff)
                               ELSE Outcome(r.db,
                                            Json(200, [status |-> "success",
                                                       response |-> answer.text]),
                                            eff)

-----------------------------------------------------------------------------
(* The requests the model sends.                                           *)

Obj1(k1, v1) == PyDict(<<k1>>, <<v1>>)
Obj2(k1, v1, k2, v2) == PyDict(<<k1, k2>>, <<v1, v2>>)
Obj3(k1, v1, k2, v2, k3, v3) == PyDict(<<k1, k2, k3>>, <<v1, v2, v3>>)

str_name == PyStr(<<"n", "a", "m", "e">>)
ZhangSan == PyStr(<<"U+5F20", "U+4E09">>)

\* Bodies of POST /api/record.
RecordBodies ==
    {JsonBody(Obj2(str_student_name, ZhangSan, str_content, PyStr(<<"a">>))),
     JsonBody(Obj1(str_content, PyStr(<<"A", "_">>))),
     JsonBody(Obj2(str_student_name, PyList(<<ZhangSan>>), str_content, PyStr(<<"a">>))),
     JsonBody(PyList(<<>>)),
     MalformedJsonBody,
     NoJsonBody}

\* Items of a JSON import: other fields bundled into data, an explicit data
\* object, a doc_type sqlite3 cannot bind, and an item that is no object.
ItemBundled == Obj3(str_doc_type, str_student, str_identifier, PyStr(<<"s", "1">>),
                    str_name, ZhangSan)
ItemWithData == Obj2(str_doc_type, str_record,
                     str_data, Obj1(str_content, PyStr(<<"a">>)))
ItemUnbindable == Obj2(str_doc_type, PyList(<<str_student>>), str_name, ZhangSan)
ItemNotObject == PyInt(5)

ImportArrays ==
    {<<>>,
     <<ItemBundled>>,
     <<ItemWithData, ItemBundled>>,
     <<ItemUnbindable, ItemBundled>>,
     <<ItemBundled, ItemUnbindable>>,
     <<ItemNotObject>>,
     <<ItemBundled, ItemNotObject>>,
     <<ItemNotObject, ItemBundled>>}

CsvHeader ==
    <<<<"d", "o", "c", "_", "t", "y", "p", "e">>, <<"i", "d", "e", "n", "t",
        "i", "f", "i", "e", "r">>, <<"n", "a", "m", "e">>>>

CsvFiles ==
    {CsvFile(FALSE, <<>>),
     CsvFile(TRUE, <<>>),
     CsvFile(TRUE, <<CsvHeader, <<<<"s", "t", "u", "d", "e", "n", "t">>,
         <<"s", "1">>, <<"U+5F20", "U+4E09">>>>>>),
     CsvFile(TRUE, <<CsvHeader, <<<<"r", "e", "c", "o", "r", "d">>>>, <<>>,
         <<<<>>, <<>>, <<"a">>>>>>),
     CsvFile(TRUE, <<CsvHeader, <<<<"s", "t", "u", "d", "e", "n", "t">>,
         <<"s", "1">>, <<"a">>, <<"b">>>>>>)}

\* Requests of POST /api/import: JSON arrays, JSON that is no array, JSON
\* that does not parse, uploaded files, and neither.
ImportRequests ==
    {[body |-> JsonBody(PyList(a)), file |-> NoFile] : a \in ImportArrays}
    \cup {[body |-> JsonBody(Obj1(str_doc_type, str_student)), file |-> NoFile],
          [body |-> MalformedJsonBody, file |-> NoFile],
          [body |-> NoJsonBody, file |-> NoFile]}
    \cup {[body |-> NoJsonBody, file |-> f] : f \in CsvFiles}

\* The positions of a batch whose insert meets a storage fault.
FaultSets == {{}, {1}}

\* Chat messages: "bang wo cha xun Zhang San de ji lu" (query and store
\* keywords), "ji lu Zhang San" (store), "tian jia A" (store, no name), ""
\* and "Zhang San" (no keyword).
MsgQueryRecord ==
    <<"U+5E2E", "U+6211", "U+67E5", "U+8BE2", "U+5F20", "U+4E09", "U+7684",
        "U+8BB0", "U+5F55">>
ChatMessages ==
    {MsgQueryRecord, <<"U+8BB0", "U+5F55", "U+5F20", "U+4E09">>, <<"U+6DFB",
        "U+52A0", "A">>, <<>>, <<"U+5F20", "U+4E09">>}

ChatBody(text) == JsonBody(Obj1(str_message, PyStr(text)))

\* What chat_completion may return: a well-formed completion, a captured
\* failure, and bodies of other shapes.
Completion ==
    Obj1(str_choices,
         PyList(<<Obj1(str_message, Obj1(str_content, PyStr(<<"o", "k">>)))>>))
CallFailed == Obj1(str_error, PyStr(<<"t", "i", "m", "e", "o", "u", "t">>))
ApiResults ==
    {Completion,
     CallFailed,
     PyDict(<<>>, <<>>),
     Obj1(str_choices, PyList(<<>>)),
     Obj1(str_error, Obj1(str_message, PyStr(<<"b", "u", "s", "y">>))),
     PyList(<<>>),
     PyStr(<<"e", "r", "r", "o", "r">>),
     PyInt(5),
     PyNone}

\* Requests of POST /api/chat with what the completion API answers them.
ChatCases ==
    {[body |-> ChatBody(m), res |-> Completion] : m \in ChatMessages}
    \cup {[body |-> ChatBody(MsgQueryRecord), res |-> r] : r \in ApiResults}
    \cup {[body |-> b, res |-> Completion] :
            b \in {JsonBody(Obj1(str_message, PyInt(5))), JsonBody(PyList(<<>>)),
                   JsonBody(PyDict(<<>>, <<>>)), NoJsonBody}}

-----------------------------------------------------------------------------
(* The actions: one per request handled, and the clock.                    *)

Init ==
    /\ documents = <<>>
    /\ sqlite_sequence = 0
    /\ now = 0
    /\ request = [handler |-> "none"]
    /\ response = [kind |-> "none"]
    /\ effects = NoEffects

\* The handler answers req with outcome out; the table holds at most cap rows.
Handle(req, out, cap) ==
    /\ Len(out.db.documents) <= cap
    /\ request' = req
    /\ response' = out.response
    /\ effects' = out.effects
    /\ documents' = out.db.documents
    /\ sqlite_sequence' = out.db.seq
    /\ UNCHANGED now

\* GET /api/students.
GetStudents ==
    \E tie \in TieOrders, qfault \in BOOLEAN :
        Handle([handler |-> "students"],
               api_students(Database, now, tie, qfault), MaxDocs)

\* POST /api/record with a body of bodies.
PostRecord(bodies) ==
    \E body \in bodies, fault \in BOOLEAN :
        Handle([handler |-> "record", body |-> body],
               api_record(Database, now, body, fault), MaxDocs)

\* POST /api/import with a request of reqs; the table may grow to cap rows.
PostImport(reqs, faultsets, cap) ==
    \E im \in reqs, faults \in faultsets :
        Handle([handler |-> "import", body |-> im.body, file |-> im.file],
               api_import(Database, now, im.body, im.file, faults), cap)

\* POST /api/chat with a case of cases.
PostChat(cases) ==
    \E c \in cases, fault \in BOOLEAN, tie \in TieOrders :
        Handle([handler |-> "chat", body |-> c.body],
               chat(Database, now, c.body, c.res, fault, tie), MaxDocs)

\* GET /api/health.
GetHealth ==
    Handle([handler |-> "health"], health(Database, now), MaxDocs)

\* A second passes.
Tick ==
    /\ now < MaxClock
    /\ now' = now + 1
    /\ UNCHANGED <<documents, sqlite_sequence, request, response, effects>>

\* Every handler, on the requests listed above.
Next ==
    \/ GetStudents
    \/ PostRecord(RecordBodies)
    \/ PostImport(ImportRequests, FaultSets, MaxDocs)
    \/ PostChat(ChatCases)
    \/ GetHealth
    \/ Tick

Spec == Init /\ [][Next]_vars

-----------------------------------------------------------------------------
(* SpecStore: every handler, on the requests that decide what is written   *)
(* to the table (one per path through add_document and its callers).       *)

StoreRecordBodies ==
    {JsonBody(Obj2(str_student_name, ZhangSan, str_content, PyStr(<<"a">>))),
     JsonBody(Obj2(str_student_name, PyList(<<ZhangSan>>), str_content, PyStr(<<"a">>))),
     JsonBody(PyList(<<>>))}

StoreImportRequests ==
    {[body |-> JsonBody(PyList(<<ItemBundled, ItemNotObject>>)), file |-> NoFile],
     [body |-> JsonBody(PyList(<<ItemUnbindable, ItemBundled>>)), file |-> NoFile],
     [body |-> JsonBody(Obj1(str_doc_type, str_student)), file |-> NoFile],
     [body |-> NoJsonBody,
      file |-> CsvFile(TRUE, <<CsvHeader, <<<<"s", "t", "u", "d", "e", "n",
          "t">>, <<"s", "1">>, <<"U+5F20", "U+4E09">>>>>>)]}



StoreChatCases ==
    {[body |-> ChatBody(m), res |-> r] :
        m \in {MsgQueryRecord, <<"U+8BB0", "U+5F55", "U+5F20", "U+4E09">>},
            r \in {Completion, PyNone}}

NextStore ==
    \/ GetStudents
    \/ PostRecord(StoreRecordBodies)
    \/ PostImport(StoreImportRequests, FaultSets, MaxDocs)
    \/ PostChat(StoreChatCases)
    \/ GetHealth
    \/ Tick

SpecStore == Init /\ [][NextStore]_vars

-----------------------------------------------------------------------------
(* SpecQuery: add_document and query_documents called directly.            *)

QueryDocTypes == {PyNone, str_student, str_record}
QueryData == {PyStr(<<"a", "b", "c">>), PyStr(<<"x", "y", "z">>)}
QuerySearches == {PyNone, PyStr(<<"b">>), PyStr(<<"B">>), PyStr(<<"a", "_", "c">>), PyStr(<<"q">>)}
QueryFilters == {PyNone, str_student, str_record}
QueryLimits == {0, 1, DefaultLimit}

CallAddDocument ==
    \E doc_type \in QueryDocTypes, data \in QueryData :
        LET r == add_document(Database, now, doc_type, PyNone, data, FALSE)
        IN Handle([handler |-> "add_document", doc_type |-> doc_type, data |-> data],
                  Outcome(r.db, [kind |-> "value", ok |-> r.ok, new_id |-> r.new_id],
                          [NoEffects EXCEPT !.attempted = 1,
                                            !.inserted = IF r.ok THEN <<r.new_id>>
                                                         ELSE <<>>]),
                  MaxDocs)

CallQueryDocuments(searches, filters, limits, cap) ==
    \E search_text \in searches, doc_type \in filters, limit \in limits,
       tie \in TieOrders :
        Handle([handler |-> "query_documents", search_text |-> search_text,
                doc_type |-> doc_type, limit |-> limit],
               Outcome(Database,
                       [kind |-> "rows",
                        rows |-> query_documents(Database, search_text, doc_type,
                                                 limit, tie)],
                       NoEffects),
               cap)

NextQuery ==
    \/ CallAddDocument
    \/ CallQueryDocuments(QuerySearches, QueryFilters, QueryLimits, MaxDocs)
    \/ Tick

SpecQuery == Init /\ [][NextQuery]_vars

-----------------------------------------------------------------------------
(* SpecBulk: batches of up to one default page of documents and more,      *)
(* imported within a second, and the default query.                        *)

BulkCap == DefaultLimit + MaxBulkExtra
BulkSizes == {DefaultLimit - 1, DefaultLimit, BulkCap}
BulkRequests ==
    {[body |-> JsonBody(PyList([i \in 1..n |-> ItemBundled])), file |-> NoFile] :
        n \in BulkSizes}

NextBulk ==
    \/ \E r \in BulkRequests :
          /\ Len(documents) + Len(r.body.value.a) <= BulkCap
          /\ PostImport({r}, {{}}, BulkCap)
    \/ CallQueryDocuments({PyNone}, QueryFilters, {ChatLimit, DefaultLimit, StudentsLimit},
                          BulkCap)
    \/ Tick

SpecBulk == Init /\ [][NextBulk]_vars

-----------------------------------------------------------------------------
(* SpecChat: one chat message, any short text over the characters of the   *)
(* keywords, a surname and a capital letter, or a query keyword beside a   *)
(* store keyword.                                                          *)

ChatAlphabet ==
    UNION {{k[i] : i \in 1..Len(k)} : k \in QueryKeywords \cup StoreKeywords}
    \cup {"U+5F20", "A"}

RECURSIVE TextsUpTo(_)
TextsUpTo(n) ==
    IF n = 0 THEN {<<>>}
    ELSE LET shorter == TextsUpTo(n - 1)
         IN shorter \cup {Append(t, c) : t \in shorter, c \in ChatAlphabet}

KeywordPairs ==
    {q \o s : q \in QueryKeywords, s \in StoreKeywords}
    \cup {s \o q : q \in QueryKeywords, s \in StoreKeywords}

ChatTexts == TextsUpTo(MaxTextLen) \cup KeywordPairs \cup ChatMessages

InitChat ==
    /\ documents = <<>>
    /\ sqlite_sequence = 0
    /\ now = 0
    /\ request \in {[handler |-> "pending", body |-> ChatBody(t)] : t \in ChatTexts}
    /\ response = [kind |-> "none"]
    /\ effects = NoEffects

\* The pending message is handled.
HandlePending ==
    /\ request.handler = "pending"
    /\ \E fault \in BOOLEAN :
          Handle([handler |-> "chat", body |-> request.body],
                 chat(Database, now, request.body, Completion, fault, "scan"),
                 MaxDocs)

NextChat == HandlePending \/ Tick

SpecChat == InitChat /\ [][NextChat]_vars

-----------------------------------------------------------------------------
(* What the specification says of the program, claim by claim.             *)

\* The request just handled is a POST /api/import whose body is a JSON array.
ImportedArray ==
    /\ request.handler = "import"
    /\ request.body.is_json
    /\ request.body.parses
    /\ IsList(request.body.value)

\* The request just handled is a POST /api/import with a file that decodes.
ImportedCsv ==
    /\ request.handler = "import"
    /\ ~request.body.is_json
    /\ request.file.present
    /\ request.file.decodable

\* The response is a JSON body with the tally of a batch.
HasTally ==
    /\ response.kind = "json"
    /\ "summary" \in DOMAIN response.body
    /\ "details" \in DOMAIN response.body

\* C1: a POST /api/import whose body is a JSON array of N items is answered
\* with summary.success = the number of items inserted, summary.fail = the
\* rest, and N details, the i-th echoing the i-th item, whatever the items.
ImportTalliesEveryItem ==
    ImportedArray =>
        LET items == request.body.value.a
        IN /\ HasTally
           /\ response.body.summary.success = Len(effects.inserted)
           /\ response.body.summary.fail = Len(items) - Len(effects.inserted)
           /\ Len(response.body.details) = Len(items)
           /\ \A i \in 1..Len(items) : response.body.details[i].item = items[i]

\* C2: a batch import (JSON array or CSV rows) never aborts on one item:
\* every item is passed to add_document, and every document inserted is
\* reported in the tally and the details of the response.
BatchNeverAborts ==
    (ImportedArray \/ ImportedCsv) =>
        LET n == IF ImportedArray THEN Len(request.body.value.a)
                 ELSE Len(DictReader(request.file.records))
        IN /\ effects.attempted = n
           /\ HasTally
           /\ response.body.summary.success = Len(effects.inserted)
           /\ \A k \in 1..Len(effects.inserted) :
                 \E i \in 1..Len(response.body.details) :
                     /\ response.body.details[i].status = "ok"
                     /\ response.body.details[i].id = effects.inserted[k]

\* C3: whatever the completion call returned (a failure, a body of another
\* shape), POST /api/chat answers HTTP 200 with status "success": no outcome
\* of the call makes the handler raise.
ChatAnswersWhateverTheCompletion ==
    (request.handler = "chat" /\ effects.external # NotCalled) =>
        /\ response.kind = "json"
        /\ response.http = 200
        /\ response.body.status = "success"

\* C4: the document a request has just inserted is in the result of the next
\* query_documents call without filters and with the default limit, and is
\* in no result of a call whose doc_type filter differs from its doc_type.
JustInsertedIsQueried ==
    [][(/\ effects.inserted # <<>>
        /\ request'.handler = "query_documents"
        /\ request'.search_text = PyNone
        /\ request'.limit = DefaultLimit)
       => LET doc == documents[Len(documents)]
              found == \E i \in 1..Len(response'.rows) :
                           response'.rows[i].id = doc.id
          IN /\ doc.id = effects.inserted[Len(effects.inserted)]
             /\ request'.doc_type = PyNone => found
             /\ (request'.doc_type # PyNone /\ request'.doc_type # doc.doc_type)
                    => ~found]_vars

\* C5: in every state the ids of the stored documents are strictly
\* increasing in insertion order (so pairwise distinct), created_time is
\* non-decreasing in insertion order, and the ids a request was handed are
\* those of the documents stored last, greater than every id before.
IdsAndTimesIncrease ==
    /\ \A i, j \in 1..Len(documents) :
          i < j => /\ documents[i].id < documents[j].id
                   /\ documents[i].created_time <= documents[j].created_time
    /\ Len(effects.inserted) <= Len(documents)
    /\ \A k \in 1..Len(effects.inserted) :
          effects.inserted[k] =
              documents[Len(documents) - Len(effects.inserted) + k].id

\* Documents of two different seconds are stored, the second by the request
\* just handled.
TwoSecondsStored ==
    /\ Len(documents) >= 2
    /\ documents[1].created_time < documents[2].created_time
    /\ effects.inserted # <<>>

\* The routes of the application.
Handlers == {"students", "record", "import", "chat", "health"}

\* C6: every handler (students, record, import, chat, health) answers with a
\* JSON body; when parsing the request or the storage failed, that body has
\* status "error"; no exception leaves a handler.
HandlersAnswerWithEnvelope ==
    request.handler \in Handlers => response.kind = "json"

\* C7: POST /api/import answers a request that is no JSON array and has no
\* file with 400 and status "error", inserting nothing, and answers every
\* JSON array and every CSV file with status "success" and a tally.
ImportFailsOnlyWithoutArrayOrFile ==
    request.handler = "import" =>
        IF ImportedArray \/ ImportedCsv
        THEN HasTally /\ response.body.status = "success"
        ELSE ~request.file.present =>
                /\ response.kind = "json"
                /\ response.http = 400
                /\ response.body.status = "error"
                /\ effects.inserted = <<>>

\* doc passes the filters of the query_documents call just made, read as
\* the equality and the substring test they are said to be.
SatisfiesFilters(doc) ==
    /\ request.doc_type # PyNone => doc.doc_type = request.doc_type
    /\ request.search_text # PyNone => Contains(doc.data, request.search_text.s)

\* C8: query_documents(search_text, doc_type, limit) returns at most limit
\* stored documents, each with the doc_type of the filter and with
\* search_text a substring of its data, newest first, and leaves no matching
\* document out for an older one.
QueryReturnsNewestMatching ==
    request.handler = "query_documents" =>
        LET rows == response.rows
        IN /\ Len(rows) <= request.limit
           /\ \A i \in 1..Len(rows) :
                 /\ \E k \in 1..Len(documents) : documents[k] = rows[i]
                 /\ SatisfiesFilters(rows[i])
           /\ \A i, j \in 1..Len(rows) :
                 i < j => rows[i].created_time >= rows[j].created_time
           /\ \A k \in 1..Len(documents) :
                 (/\ SatisfiesFilters(documents[k])
                  /\ \A i \in 1..Len(rows) : rows[i] # documents[k])
                 => /\ Len(rows) = request.limit
                    /\ \A i \in 1..Len(rows) :
                          rows[i].created_time >= documents[k].created_time

\* text holds one of keywords; the message of the chat request just handled.
HoldsOneOf(text, keywords) == \E k \in keywords : Contains(text, k)

ChatText == request.body.value.v[1].s

\* C9: for every message text, analyze answers "store" exactly when the text
\* holds a store keyword and no query keyword, and "query" otherwise; the
\* message "bang wo cha xun Zhang San de ji lu" is a query; and the chat
\* handler inserts the message only when analyze answered "store".
ClassifiesStoreOnlyWithoutQueryKeyword ==
    /\ analyze(MsgQueryRecord) = "query"
    /\ request.handler = "chat" =>
          /\ effects.intent =
                IF /\ HoldsOneOf(ChatText, StoreKeywords)
                   /\ ~HoldsOneOf(ChatText, QueryKeywords)
                THEN "store" ELSE "query"
          /\ effects.intent = "query" =>
                effects.attempted = 0 /\ documents = <<>>
          /\ effects.intent = "store" => effects.attempted = 1

\* A message with a store keyword and a query keyword was handled as a query.
BothKeywordsHandledAsQuery ==
    /\ request.handler = "chat"
    /\ HoldsOneOf(ChatText, StoreKeywords)
    /\ HoldsOneOf(ChatText, QueryKeywords)
    /\ effects.intent = "query"
    /\ response.kind = "json"

\* The request just handled is one that reads, or one that inserted nothing.
ReadOnlyHandled ==
    \/ request.handler \in {"students", "health"}
    \/ request.handler = "chat" /\ effects.intent = "query"
    \/ request.handler \in Handlers /\ effects.inserted = <<>>

\* C10: the table is an append-only log: every step keeps every stored
\* document as it was, at its place; a handler changes the table only by
\* appending the documents it inserted; and GET /api/students, GET
\* /api/health, a chat message classified as a query and a failed insert
\* leave the table as it was.
StoreIsAppendOnly ==
    [][/\ Len(documents') >= Len(documents)
       /\ SubSeq(documents', 1, Len(documents)) = documents
       /\ now' = now =>
             /\ Len(documents') = Len(documents) + Len(effects'.inserted)
             /\ ReadOnlyHandled' => documents' = documents]_vars

\* The table holds documents and a request that reads, or whose insert
\* failed, has been handled.
ReadOnlyHandledOnStoredDocuments ==
    /\ documents # <<>>
    /\ ReadOnlyHandled
    /\ \/ request.handler = "chat" /\ effects.external # NotCalled
       \/ effects.attempted > 0
====
